---- MODULE Spec2Model ----
(***************************************************************************)
(* The real-time DJ session subsystem of the backend (src/realtime_dj):    *)
(* the session / track-instance / snapshot / metrics tables, the REST      *)
(* handlers of views.py, the serializers' validation, the management       *)
(* command's stop action, the WebSocket consumers of consumers.py and the  *)
(* channel layer's groups they join.                                       *)
(*                                                                         *)
(* The database runs in autocommit mode (no ATOMIC_REQUESTS, no            *)
(* transaction.atomic anywhere in the handlers), so every ORM statement    *)
(* (a get, a save, a queryset update, an insert) is its own transaction.   *)
(* A handler is therefore a sequence of atomic steps, one per statement,   *)
(* and the steps of concurrently served requests interleave.  Each request *)
(* in flight occupies a worker slot; req[w].obj is the in-memory model     *)
(* instance the handler loaded, which Model.save() writes back whole       *)
(* unless update_fields is given.                                          *)
(*                                                                         *)
(* A WebSocket connection is served by one consumer instance, which        *)
(* handles one message at a time: a frame from its client, a message the   *)
(* channel layer put on its channel, or the disconnect.  An exception that *)
(* leaves a handler ends the consumer: the socket is closed by the server  *)
(* and no further handler of the instance, disconnect included, runs.      *)
(***************************************************************************)
EXTENDS Integers, Sequences, FiniteSets, TLC

\* ----------------------------------------------------------------- bounds
MaxTime == 1        \* the clock runs 0..MaxTime
MaxSessions == 1    \* rows the session table may hold
MaxTracks == 2      \* rows the track-instance table may hold
MaxListeners == 1   \* listener counts a client may report, 0..MaxListeners
MaxRows == 1        \* rows each append-only telemetry table may hold
MaxRequests == 3    \* requests accepted in one behaviour
MaxCues == 2        \* cue names "Cue 1" .. "Cue MaxCues"

Users == {"u1", "u2"}
Workers == {"w1", "w2"}
Levels == {0, 1}    \* audio levels: the two ends of the validated range [0,1]
Conns == {"c1", "c2"}   \* WebSocket connections

NULL == -1          \* a null timestamp
SessionIds == 1..MaxSessions
TrackIds == 1..MaxTracks
Counts == 0..MaxListeners
CueNames == 1..MaxCues      \* k stands for the name "Cue k"
Positions == {0, 1}         \* track positions: the start, and one second in

\* The session ids the route ws/dj/sessions/<id>/ accepts are the strings
\* over [0-9a-f-]: the (hyphenated) ids of sessions, and strings that are no
\* UUID at all, of which NotUuid is one.  GlobalScope is ws/dj/global/.
NotUuid == MaxSessions + 1
GlobalScope == MaxSessions + 2
RouteIds == SessionIds \cup {NotUuid}
Scopes == RouteIds \cup {GlobalScope}

Max(a, b) == IF a > b THEN a ELSE b

VARIABLES
    now,        \* timezone.now()
    sessions,   \* table realtime_dj_djsession: id -> row
    tracks,     \* table realtime_dj_djtrackinstance: id -> row
    snapshots,  \* table realtime_dj_audiolevelsnapshot, in insertion order
    metrics,    \* table realtime_dj_livestreammetrics, in insertion order
    pc,         \* per worker: the statement its handler executes next
    req,        \* per worker: the request and the handler's local variables
    sent,       \* the channel_layer.group_send issued by the latest step
    resp,       \* the response returned by the latest step
    served,     \* the number of requests accepted so far
    conns,      \* per connection: its consumer's state
    members,    \* the channel layer's groups: group -> channels added to it
    inbox,      \* per connection: the group messages waiting on its channel
    frame,      \* the frame the latest step sent down a socket
    deleted     \* the primary keys of the rows deleted so far, per table

vars == <<now, sessions, tracks, snapshots, metrics, pc, req, sent, resp, served,
          conns, members, inbox, frame, deleted>>

\* ------------------------------------------------------------------ model
DECK_CHOICES == {"A", "B"}

\* A DJSession row with the field defaults of the model.  The fields kept
\* are those some handler other than a plain PATCH reads or writes.
DJSession(user) ==
    [dj |-> user, started_at |-> now, ended_at |-> NULL, is_live |-> FALSE,
     current_listeners |-> 0, peak_listeners |-> 0,
     master_level_left |-> 0, master_level_right |-> 0,
     channel_a_level |-> 0, channel_b_level |-> 0]

\* DJSession.is_active
is_active(row) == row.ended_at = NULL

\* A DJTrackInstance row with the field defaults of the model.
DJTrackInstance(s, d) ==
    [session |-> s, deck |-> d, ended_at |-> NULL, is_playing |-> FALSE,
     current_position |-> 0, cue_points |-> << >>]

NoObj == [none |-> TRUE]
NoSend == [group |-> 0, type |-> "none", event |-> "none"]
NoResp == [op |-> "none", status |-> 0, sid |-> 0]
Idle == [op |-> "none", user |-> "none", sid |-> 0, tid |-> 0, obj |-> NoObj, arg |-> NoObj]
NoFrame == [conn |-> "none", type |-> "none", group |-> 0, data |-> NoObj]
NoConn == [state |-> "Closed", scope |-> 0, pc |-> "idle", obj |-> NoObj, arg |-> NoObj]

room_group_name_Shared(scope) == 1

\* room_group_name: dj_session_<id> for a session consumer, dj_global_updates
\* for the global one.  Groups are named by the scope they belong to.
room_group_name(scope) == scope

\* channel_layer.group_send(group, message): the message is put on the
\* channel of every member of the group that still has a consumer reading it.
Deliver(msg) ==
    [c \in Conns |->
        IF c \in members[msg.group] /\ conns[c].state = "Joined"
        THEN Append(inbox[c], msg)
        ELSE inbox[c]]

group_send(msg) == sent' = msg /\ inbox' = Deliver(msg)

\* A statement that sends nothing to the channel layer.
NoPublish == sent' = NoSend /\ UNCHANGED inbox

\* group_send raises (the broker is unreachable): nothing is put on a channel.
PublishFails == sent' = NoSend /\ UNCHANGED inbox

\* A step of a REST handler or of a command touches no connection.
NoSocket == frame' = NoFrame /\ UNCHANGED <<conns, members>>

\* A request is accepted by a worker that serves none.
Free(w) == pc[w] = "idle" /\ served < MaxRequests

\* uuid4 primary keys: a fresh key is any key not in the table (and, where
\* rows are deleted, never one a deleted row had); the smallest is taken.
FreshId(table, ids) == CHOOSE i \in ids \ DOMAIN table : \A j \in ids \ DOMAIN table : i <= j

Insert(table, id, row) == [i \in DOMAIN table \cup {id} |-> IF i = id THEN row ELSE table[i]]

Init ==
    /\ now = 0
    /\ sessions = << >>
    /\ tracks = << >>
    /\ snapshots = << >>
    /\ metrics = << >>
    /\ pc = [w \in Workers |-> "idle"]
    /\ req = [w \in Workers |-> Idle]
    /\ sent = NoSend
    /\ resp = NoResp
    /\ served = 0
    /\ conns = [c \in Conns |-> NoConn]
    /\ members = [g \in Scopes |-> {}]
    /\ inbox = [c \in Conns |-> << >>]
    /\ frame = NoFrame
    /\ deleted = [sessions |-> {}, tracks |-> {}]

Tick ==
    /\ now < MaxTime
    /\ now' = now + 1
    /\ NoPublish
    /\ resp' = NoResp
    /\ NoSocket
    /\ UNCHANGED <<sessions, tracks, snapshots, metrics, pc, req, served, deleted>>

\* A handler finishes: it returns its response and the worker is freed.
Respond(w, op, status, id) ==
    /\ served' = served + (IF pc[w] = "idle" THEN 1 ELSE 0)
    /\ pc' = [pc EXCEPT ![w] = "idle"]
    /\ req' = [req EXCEPT ![w] = Idle]
    /\ resp' = [op |-> op, status |-> status, sid |-> id]
    /\ NoSocket

\* A handler moves on to its next statement.
Goto(w, label, r) ==
    /\ served' = served + (IF pc[w] = "idle" THEN 1 ELSE 0)
    /\ pc' = [pc EXCEPT ![w] = label]
    /\ req' = [req EXCEPT ![w] = r]
    /\ resp' = NoResp
    /\ NoSocket

\* An INSERT that names a session deleted meanwhile violates the foreign
\* key, and a save(update_fields=...) of a row deleted meanwhile updates no
\* row: either raises a database error, which the handler does not catch.
ForeignKeyFails(w, op) == Respond(w, op, 500, req[w].sid)
NoRowUpdated(w, op) == Respond(w, op, 500, req[w].sid)

\* DJSessionViewSet.get_queryset: the sessions the user is the DJ of.
OwnedSession(u, s) == s \in DOMAIN sessions /\ sessions[s].dj = u

\* _broadcast_session_event / _broadcast_session_update
SessionEvent(s, event) == [group |-> s, type |-> "session_event", event |-> event]
SessionUpdate(s) == [group |-> s, type |-> "session_update", event |-> "none"]

\* ---------------------------------------------------- POST /sessions
SessionCreate(w, u) ==
    /\ Free(w)
    /\ Cardinality(DOMAIN sessions \cup deleted.sessions) < MaxSessions
    /\ LET id == FreshId(sessions, SessionIds \ deleted.sessions) IN
        /\ sessions' = Insert(sessions, id, DJSession(u))
        /\ Goto(w, "create_publish", [Idle EXCEPT !.op = "create", !.user = u, !.sid = id])
    /\ NoPublish
    /\ UNCHANGED <<now, tracks, snapshots, metrics, deleted>>

SessionCreatePublish(w) ==
    /\ pc[w] = "create_publish"
    /\ \/ group_send(SessionEvent(req[w].sid, "session_created")) /\ Respond(w, "create", 201, req[w].sid)
       \/ PublishFails /\ Respond(w, "create", 500, req[w].sid)
    /\ UNCHANGED <<now, sessions, tracks, snapshots, metrics, deleted>>

\* ------------------------------------------------- PATCH /sessions/{id}
\* DJSessionUpdateSerializer.Meta.fields, as far as the row models them.
PatchFields == {"is_live", "current_listeners", "master_level_left"}

PatchValues(f) ==
    CASE f = "is_live" -> BOOLEAN
      [] f = "current_listeners" -> Counts
      [] OTHER -> Levels

\* The bodies of a partial update that sets one of the fields F.
PatchInputs(F) == UNION {[{f} -> PatchValues(f)] : f \in F}

\* ModelSerializer.update: setattr for every validated field.
ApplyPatch(row, p) == [f \in DOMAIN row |-> IF f \in DOMAIN p THEN p[f] ELSE row[f]]

\* Model.save() without update_fields: every column is written from the
\* in-memory instance, by an UPDATE of the row or, when the row is no longer
\* there, by an INSERT of it.
Save(table, id, row) == Insert(table, id, row)

SessionPatchRead(w, u, s, p) ==
    /\ Free(w)
    /\ IF OwnedSession(u, s)
       THEN Goto(w, "patch_save", [Idle EXCEPT !.op = "patch", !.user = u, !.sid = s,
                                               !.obj = sessions[s], !.arg = p])
       ELSE Respond(w, "patch", 404, s)
    /\ NoPublish
    /\ UNCHANGED <<now, sessions, tracks, snapshots, metrics, deleted>>

SessionPatchSave(w) ==
    /\ pc[w] = "patch_save"
    /\ sessions' = Save(sessions, req[w].sid, ApplyPatch(req[w].obj, req[w].arg))
    /\ Goto(w, "patch_publish", [req[w] EXCEPT !.obj = NoObj, !.arg = NoObj])
    /\ NoPublish
    /\ UNCHANGED <<now, tracks, snapshots, metrics, deleted>>

SessionPatchPublish(w) ==
    /\ pc[w] = "patch_publish"
    /\ \/ group_send(SessionUpdate(req[w].sid)) /\ Respond(w, "patch", 200, req[w].sid)
       \/ PublishFails /\ Respond(w, "patch", 500, req[w].sid)
    /\ UNCHANGED <<now, sessions, tracks, snapshots, metrics, deleted>>

\* ---------------------------------------- POST /sessions/{id}/start_session
StartAllowed_Always(row) == TRUE

\* The guard of start_session: the session must not be live already.
StartAllowed(row) == ~row.is_live

\* What start_session assigns before it saves.
Started(row) == [row EXCEPT !.is_live = TRUE, !.started_at = now]

StartSessionRead(w, u, s) ==
    /\ Free(w)
    /\ IF ~OwnedSession(u, s)
       THEN Respond(w, "start_session", 404, s)
       ELSE IF ~StartAllowed(sessions[s])
       THEN Respond(w, "start_session", 400, s)
       ELSE Goto(w, "start_save", [Idle EXCEPT !.op = "start_session", !.user = u,
                                               !.sid = s, !.obj = sessions[s]])
    /\ NoPublish
    /\ UNCHANGED <<now, sessions, tracks, snapshots, metrics, deleted>>

StartSessionSave(w) ==
    /\ pc[w] = "start_save"
    /\ sessions' = Save(sessions, req[w].sid, Started(req[w].obj))
    /\ Goto(w, "start_publish", [req[w] EXCEPT !.obj = NoObj])
    /\ NoPublish
    /\ UNCHANGED <<now, tracks, snapshots, metrics, deleted>>

StartSessionPublish(w) ==
    /\ pc[w] = "start_publish"
    /\ \/ group_send(SessionEvent(req[w].sid, "session_started")) /\ Respond(w, "start_session", 200, req[w].sid)
       \/ PublishFails /\ Respond(w, "start_session", 500, req[w].sid)
    /\ UNCHANGED <<now, sessions, tracks, snapshots, metrics, deleted>>

\* ------------------------------------------ POST /sessions/{id}/end_session
\* The guard of end_session: the session must be live.
EndAllowed(row) == row.is_live

Ended_StaysLive(row) == [row EXCEPT !.ended_at = now]

\* What end_session and the stop command assign before they save.
Ended(row) == [row EXCEPT !.is_live = FALSE, !.ended_at = now]

\* DJTrackInstance.objects.filter(session=s, ended_at__isnull=True)
ActiveTracks(s) == {t \in DOMAIN tracks : tracks[t].session = s /\ tracks[t].ended_at = NULL}

\* ....update(ended_at=timezone.now(), is_playing=False): one UPDATE statement.
StopTracks(s) ==
    [t \in DOMAIN tracks |->
        IF t \in ActiveTracks(s)
        THEN [tracks[t] EXCEPT !.ended_at = now, !.is_playing = FALSE]
        ELSE tracks[t]]

EndSessionRead(w, u, s) ==
    /\ Free(w)
    /\ IF ~OwnedSession(u, s)
       THEN Respond(w, "end_session", 404, s)
       ELSE IF ~EndAllowed(sessions[s])
       THEN Respond(w, "end_session", 400, s)
       ELSE Goto(w, "end_save", [Idle EXCEPT !.op = "end_session", !.user = u,
                                             !.sid = s, !.obj = sessions[s]])
    /\ NoPublish
    /\ UNCHANGED <<now, sessions, tracks, snapshots, metrics, deleted>>

EndSessionSave(w) ==
    /\ pc[w] = "end_save"
    /\ sessions' = Save(sessions, req[w].sid, Ended(req[w].obj))
    /\ Goto(w, "end_cascade", [req[w] EXCEPT !.obj = NoObj])
    /\ NoPublish
    /\ UNCHANGED <<now, tracks, snapshots, metrics, deleted>>

EndSessionCascade(w) ==
    /\ pc[w] = "end_cascade"
    /\ tracks' = StopTracks(req[w].sid)
    /\ Goto(w, "end_publish", req[w])
    /\ NoPublish
    /\ UNCHANGED <<now, sessions, snapshots, metrics, deleted>>

EndSessionPublish(w) ==
    /\ pc[w] = "end_publish"
    /\ \/ group_send(SessionEvent(req[w].sid, "session_ended")) /\ Respond(w, "end_session", 200, req[w].sid)
       \/ PublishFails /\ Respond(w, "end_session", 500, req[w].sid)
    /\ UNCHANGED <<now, sessions, tracks, snapshots, metrics, deleted>>

\* ------------------------------------------- manage.py dj_manager stop
\* The command runs in a process of its own; it has no user and publishes
\* nothing.  Status 200 is its success message, 404 "not found or already ended".
StopSessionRead(w, s) ==
    /\ Free(w)
    /\ IF s \in DOMAIN sessions /\ sessions[s].ended_at = NULL
       THEN Goto(w, "stop_save", [Idle EXCEPT !.op = "stop", !.sid = s, !.obj = sessions[s]])
       ELSE Respond(w, "stop", 404, s)
    /\ NoPublish
    /\ UNCHANGED <<now, sessions, tracks, snapshots, metrics, deleted>>

StopSessionSave(w) ==
    /\ pc[w] = "stop_save"
    /\ sessions' = Save(sessions, req[w].sid, Ended(req[w].obj))
    /\ Goto(w, "stop_cascade", [req[w] EXCEPT !.obj = NoObj])
    /\ NoPublish
    /\ UNCHANGED <<now, tracks, snapshots, metrics, deleted>>

StopSessionCascade(w) ==
    /\ pc[w] = "stop_cascade"
    /\ tracks' = StopTracks(req[w].sid)
    /\ Respond(w, "stop", 200, req[w].sid)
    /\ NoPublish
    /\ UNCHANGED <<now, sessions, snapshots, metrics, deleted>>

\* ------------------------------------------------------------ POST /tracks
DeckFree_AnyDeck(s, d) == ActiveTracks(s) = {}

\* DJTrackInstanceCreateSerializer.validate: the deck must hold no active
\* track instance of the session.
DeckFree(s, d) == ~\E t \in ActiveTracks(s) : tracks[t].deck = d

\* The load requests that validated and have not inserted yet.
Loading == {w \in Workers : pc[w] = "load_insert"}

\* The session field is a PrimaryKeyRelatedField over DJSession.objects.all():
\* the session must exist, whoever its DJ is.
TrackLoadValidate(w, u, s, d) ==
    /\ Free(w)
    /\ Cardinality(DOMAIN tracks \cup deleted.tracks) + Cardinality(Loading) < MaxTracks
    /\ IF s \in DOMAIN sessions /\ DeckFree(s, d)
       THEN Goto(w, "load_insert", [Idle EXCEPT !.op = "load", !.user = u, !.sid = s,
                                                !.arg = d])
       ELSE Respond(w, "load", 400, s)
    /\ NoPublish
    /\ UNCHANGED <<now, sessions, tracks, snapshots, metrics, deleted>>

\* perform_create is not overridden: the row is inserted, nothing is published.
TrackLoadInsert(w) ==
    /\ pc[w] = "load_insert"
    /\ IF req[w].sid \in DOMAIN sessions
       THEN LET id == FreshId(tracks, TrackIds \ deleted.tracks) IN
            /\ tracks' = Insert(tracks, id, DJTrackInstance(req[w].sid, req[w].arg))
            /\ Respond(w, "load", 201, req[w].sid)
       ELSE ForeignKeyFails(w, "load") /\ UNCHANGED tracks
    /\ NoPublish
    /\ UNCHANGED <<now, sessions, snapshots, metrics, deleted>>

\* ------------------------------------------- POST /tracks/{id}/play, pause
\* DJTrackInstanceViewSet.get_queryset: the track instances of the user's sessions.
OwnedTrack(u, t) ==
    /\ t \in DOMAIN tracks
    /\ tracks[t].session \in DOMAIN sessions
    /\ sessions[tracks[t].session].dj = u

\* _broadcast_track_event: the group is that of the instance's session.
TrackEvent(s, event) == [group |-> s, type |-> "track_event", event |-> event]

TrackPlayRead(w, u, t, playing) ==
    /\ Free(w)
    /\ LET op == IF playing THEN "play" ELSE "pause" IN
       IF OwnedTrack(u, t)
       THEN Goto(w, "play_save", [Idle EXCEPT !.op = op, !.user = u, !.tid = t,
                                              !.sid = tracks[t].session,
                                              !.obj = tracks[t], !.arg = playing])
       ELSE Respond(w, op, 404, 0)
    /\ NoPublish
    /\ UNCHANGED <<now, sessions, tracks, snapshots, metrics, deleted>>

TrackPlaySave(w) ==
    /\ pc[w] = "play_save"
    /\ IF req[w].tid \in DOMAIN tracks \/ req[w].sid \in DOMAIN sessions
       THEN /\ tracks' = Save(tracks, req[w].tid, [req[w].obj EXCEPT !.is_playing = req[w].arg])
            /\ Goto(w, "play_publish", [req[w] EXCEPT !.obj = NoObj])
       ELSE ForeignKeyFails(w, req[w].op) /\ UNCHANGED tracks
    /\ NoPublish
    /\ UNCHANGED <<now, sessions, snapshots, metrics, deleted>>

TrackPlayPublish(w) ==
    /\ pc[w] = "play_publish"
    /\ \/ group_send(TrackEvent(req[w].sid, IF req[w].arg THEN "track_play" ELSE "track_pause")) /\ Respond(w, req[w].op, 200, req[w].sid)
       \/ PublishFails /\ Respond(w, req[w].op, 500, req[w].sid)
    /\ UNCHANGED <<now, sessions, tracks, snapshots, metrics, deleted>>

\* ---------------------------------------------- POST /tracks/{id}/seek
\* track_instance.save() of a track handler: every column is written; a row
\* deleted meanwhile is inserted again, which its session must still allow.
SaveTrack(w, row, next) ==
    IF req[w].tid \in DOMAIN tracks \/ req[w].sid \in DOMAIN sessions
    THEN /\ tracks' = Save(tracks, req[w].tid, row)
         /\ Goto(w, next, [req[w] EXCEPT !.obj = NoObj])
    ELSE ForeignKeyFails(w, req[w].op) /\ UNCHANGED tracks

TrackSeekRead(w, u, t, position) ==
    /\ Free(w)
    /\ IF OwnedTrack(u, t)
       THEN Goto(w, "seek_save", [Idle EXCEPT !.op = "seek", !.user = u, !.tid = t,
                                              !.sid = tracks[t].session,
                                              !.obj = tracks[t], !.arg = position])
       ELSE Respond(w, "seek", 404, 0)
    /\ NoPublish
    /\ UNCHANGED <<now, sessions, tracks, snapshots, metrics, deleted>>

TrackSeekSave(w) ==
    /\ pc[w] = "seek_save"
    /\ SaveTrack(w, [req[w].obj EXCEPT !.current_position = req[w].arg], "seek_publish")
    /\ NoPublish
    /\ UNCHANGED <<now, sessions, snapshots, metrics, deleted>>

TrackSeekPublish(w) ==
    /\ pc[w] = "seek_publish"
    /\ \/ group_send(TrackEvent(req[w].sid, "track_seek")) /\ Respond(w, "seek", 200, req[w].sid)
       \/ PublishFails /\ Respond(w, "seek", 500, req[w].sid)
    /\ UNCHANGED <<now, sessions, tracks, snapshots, metrics, deleted>>

\* ------------------------------------------- POST /tracks/{id}/add_cue
\* The cue-point mappings: from names to positions.
CueMaps == UNION {[D -> Positions] : D \in SUBSET CueNames}

\* The bodies of an add_cue request: name and position are both optional.
AddCueInputs ==
    {d \in UNION {[D -> CueNames \cup Positions] : D \in SUBSET {"name", "position"}} :
        /\ "name" \in DOMAIN d => d.name \in CueNames
        /\ "position" \in DOMAIN d => d.position \in Positions}

\* request.data.get(key, default)
Get(d, key, default) == IF key \in DOMAIN d THEN d[key] ELSE default

add_cue_NameIsCount(obj, d) ==
    LET cue_name == Get(d, "name", Cardinality(DOMAIN obj.cue_points))
        position == Get(d, "position", obj.current_position)
    IN [k \in DOMAIN obj.cue_points \cup {cue_name} |->
            IF k = cue_name THEN position ELSE obj.cue_points[k]]

\* The mapping add_cue assigns: cue_points.copy() with cue_name, by default
\* "Cue {len + 1}", set to position, by default the instance's.
add_cue(obj, d) ==
    LET cue_name == Get(d, "name", Cardinality(DOMAIN obj.cue_points) + 1)
        position == Get(d, "position", obj.current_position)
    IN [k \in DOMAIN obj.cue_points \cup {cue_name} |->
            IF k = cue_name THEN position ELSE obj.cue_points[k]]

AddCueRead(w, u, t, d) ==
    /\ Free(w)
    /\ IF OwnedTrack(u, t)
       THEN /\ "name" \notin DOMAIN d => Cardinality(DOMAIN tracks[t].cue_points) < MaxCues
            /\ Goto(w, "cue_save", [Idle EXCEPT !.op = "add_cue", !.user = u, !.tid = t,
                                                !.sid = tracks[t].session,
                                                !.obj = tracks[t], !.arg = d])
       ELSE Respond(w, "add_cue", 404, 0)
    /\ NoPublish
    /\ UNCHANGED <<now, sessions, tracks, snapshots, metrics, deleted>>

AddCueSave(w) ==
    /\ pc[w] = "cue_save"
    /\ SaveTrack(w, [req[w].obj EXCEPT !.cue_points = add_cue(req[w].obj, req[w].arg)],
                 "cue_publish")
    /\ NoPublish
    /\ UNCHANGED <<now, sessions, snapshots, metrics, deleted>>

AddCuePublish(w) ==
    /\ pc[w] = "cue_publish"
    /\ \/ group_send(TrackEvent(req[w].sid, "cue_added")) /\ Respond(w, "add_cue", 200, req[w].sid)
       \/ PublishFails /\ Respond(w, "add_cue", 500, req[w].sid)
    /\ UNCHANGED <<now, sessions, tracks, snapshots, metrics, deleted>>

\* --------------------------------------------------- PATCH /tracks/{id}
\* DJTrackInstanceUpdateSerializer: a partial update that sets cue_points,
\* to a mapping of at most one cue.
TrackPatchInputs == [{"cue_points"} -> {m \in CueMaps : Cardinality(DOMAIN m) <= 1}]

\* _broadcast_track_update
TrackUpdate(s) == [group |-> s, type |-> "track_update", event |-> "none"]

TrackPatchRead(w, u, t, p) ==
    /\ Free(w)
    /\ IF OwnedTrack(u, t)
       THEN Goto(w, "track_patch_save", [Idle EXCEPT !.op = "track_patch", !.user = u,
                                                     !.tid = t, !.sid = tracks[t].session,
                                                     !.obj = tracks[t], !.arg = p])
       ELSE Respond(w, "track_patch", 404, 0)
    /\ NoPublish
    /\ UNCHANGED <<now, sessions, tracks, snapshots, metrics, deleted>>

TrackPatchSave(w) ==
    /\ pc[w] = "track_patch_save"
    /\ SaveTrack(w, ApplyPatch(req[w].obj, req[w].arg), "track_patch_publish")
    /\ NoPublish
    /\ UNCHANGED <<now, sessions, snapshots, metrics, deleted>>

TrackPatchPublish(w) ==
    /\ pc[w] = "track_patch_publish"
    /\ \/ group_send(TrackUpdate(req[w].sid)) /\ Respond(w, "track_patch", 200, req[w].sid)
       \/ PublishFails /\ Respond(w, "track_patch", 500, req[w].sid)
    /\ UNCHANGED <<now, sessions, tracks, snapshots, metrics, deleted>>

\* ---------------------------------------- manage.py dj_manager create
\* DJSession.objects.create(dj_id=..., is_live=True): one INSERT, no event.
CommandCreateSession(w, u) ==
    /\ Free(w)
    /\ Cardinality(DOMAIN sessions \cup deleted.sessions) < MaxSessions
    /\ LET id == FreshId(sessions, SessionIds \ deleted.sessions) IN
        /\ sessions' = Insert(sessions, id, [DJSession(u) EXCEPT !.is_live = TRUE])
        /\ Respond(w, "command_create", 200, id)
    /\ NoPublish
    /\ UNCHANGED <<now, tracks, snapshots, metrics, deleted>>

\* ----------------------------------------------------- POST /stream-metrics
Listeners_NoPeak(obj, c) ==
    [current_listeners |-> c, peak_listeners |-> obj.peak_listeners]

\* The listener counters metrics.perform_create and the consumer's
\* update_session_listeners compute from the instance they loaded.
Listeners(obj, c) ==
    [current_listeners |-> c,
     peak_listeners |-> IF c > obj.peak_listeners THEN c ELSE obj.peak_listeners]

\* session.save(update_fields=['current_listeners', 'peak_listeners']): only
\* the two columns are written, the rest of the row stays as stored.
SaveListeners(s, l) ==
    [sessions EXCEPT ![s].current_listeners = l.current_listeners,
                     ![s].peak_listeners = l.peak_listeners]

\* The rows the requests in flight are still to insert into a telemetry table.
Inserting(label) == Cardinality({w \in Workers : pc[w] = label})

MetricsEvent(s) == [group |-> s, type |-> "stream_metrics", event |-> "none"]

\* LiveStreamMetricsSerializer: session is a PrimaryKeyRelatedField over
\* DJSession.objects.all(); validation loads the session, whoever its DJ is.
MetricsValidate(w, u, s, c) ==
    /\ Free(w)
    /\ Len(metrics) + Inserting("metrics_insert") < MaxRows
    /\ IF s \in DOMAIN sessions
       THEN Goto(w, "metrics_insert", [Idle EXCEPT !.op = "metrics", !.user = u, !.sid = s,
                                                   !.obj = sessions[s], !.arg = c])
       ELSE Respond(w, "metrics", 400, s)
    /\ NoPublish
    /\ UNCHANGED <<now, sessions, tracks, snapshots, metrics, deleted>>

MetricsInsert(w) ==
    /\ pc[w] = "metrics_insert"
    /\ IF req[w].sid \in DOMAIN sessions
       THEN /\ metrics' = Append(metrics, [session |-> req[w].sid, timestamp |-> now,
                                           current_listeners |-> req[w].arg])
            /\ Goto(w, "metrics_update", req[w])
       ELSE ForeignKeyFails(w, "metrics") /\ UNCHANGED metrics
    /\ NoPublish
    /\ UNCHANGED <<now, sessions, tracks, snapshots, deleted>>

MetricsUpdate(w) ==
    /\ pc[w] = "metrics_update"
    /\ IF req[w].sid \in DOMAIN sessions
       THEN /\ sessions' = SaveListeners(req[w].sid, Listeners(req[w].obj, req[w].arg))
            /\ Goto(w, "metrics_publish", [req[w] EXCEPT !.obj = NoObj])
       ELSE NoRowUpdated(w, "metrics") /\ UNCHANGED sessions
    /\ NoPublish
    /\ UNCHANGED <<now, tracks, snapshots, metrics, deleted>>

MetricsPublish(w) ==
    /\ pc[w] = "metrics_publish"
    /\ \/ group_send(MetricsEvent(req[w].sid)) /\ Respond(w, "metrics", 201, req[w].sid)
       \/ PublishFails /\ Respond(w, "metrics", 500, req[w].sid)
    /\ UNCHANGED <<now, sessions, tracks, snapshots, metrics, deleted>>

\* ------------------------------------------------------- POST /audio-levels
\* The level fields of a snapshot the handler reads.
SnapshotFields ==
    {"master_left", "master_right", "channel_a_left", "channel_a_right",
     "channel_b_left", "channel_b_right"}

\* The snapshots posted: silence, and every snapshot with one level raised.
SnapshotInputs ==
    {snap \in [SnapshotFields -> Levels] :
        Cardinality({f \in SnapshotFields : snap[f] # 0}) <= 1}

CachedLevels_LeftOnly(snap) ==
    [master_level_left |-> snap.master_left,
     master_level_right |-> snap.master_right,
     channel_a_level |-> snap.channel_a_left,
     channel_b_level |-> snap.channel_b_left]

\* The cached levels perform_create derives from a snapshot.
CachedLevels(snap) ==
    [master_level_left |-> snap.master_left,
     master_level_right |-> snap.master_right,
     channel_a_level |-> Max(snap.channel_a_left, snap.channel_a_right),
     channel_b_level |-> Max(snap.channel_b_left, snap.channel_b_right)]

\* session.save(update_fields=[the four level columns])
SaveLevels(s, l) ==
    [sessions EXCEPT ![s].master_level_left = l.master_level_left,
                     ![s].master_level_right = l.master_level_right,
                     ![s].channel_a_level = l.channel_a_level,
                     ![s].channel_b_level = l.channel_b_level]

AudioEvent(s) == [group |-> s, type |-> "audio_levels", event |-> "none"]

AudioValidate(w, u, s, snap) ==
    /\ Free(w)
    /\ Len(snapshots) + Inserting("audio_insert") < MaxRows
    /\ IF s \in DOMAIN sessions
       THEN Goto(w, "audio_insert", [Idle EXCEPT !.op = "audio", !.user = u, !.sid = s,
                                                 !.arg = snap])
       ELSE Respond(w, "audio", 400, s)
    /\ NoPublish
    /\ UNCHANGED <<now, sessions, tracks, snapshots, metrics, deleted>>

AudioInsert(w) ==
    /\ pc[w] = "audio_insert"
    /\ IF req[w].sid \in DOMAIN sessions
       THEN /\ snapshots' = Append(snapshots, [session |-> req[w].sid, timestamp |-> now,
                                               levels |-> req[w].arg])
            /\ Goto(w, "audio_update", req[w])
       ELSE ForeignKeyFails(w, "audio") /\ UNCHANGED snapshots
    /\ NoPublish
    /\ UNCHANGED <<now, sessions, tracks, metrics, deleted>>

AudioUpdate(w) ==
    /\ pc[w] = "audio_update"
    /\ IF req[w].sid \in DOMAIN sessions
       THEN /\ sessions' = SaveLevels(req[w].sid, CachedLevels(req[w].arg))
            /\ Goto(w, "audio_publish", [req[w] EXCEPT !.arg = NoObj])
       ELSE NoRowUpdated(w, "audio") /\ UNCHANGED sessions
    /\ NoPublish
    /\ UNCHANGED <<now, tracks, snapshots, metrics, deleted>>

AudioPublish(w) ==
    /\ pc[w] = "audio_publish"
    /\ \/ group_send(AudioEvent(req[w].sid)) /\ Respond(w, "audio", 201, req[w].sid)
       \/ PublishFails /\ Respond(w, "audio", 500, req[w].sid)
    /\ UNCHANGED <<now, sessions, tracks, snapshots, metrics, deleted>>

\* ------------------------------- WebSocket: a listener_update message
\* The consumer of a connection bound to session id s (the route accepts any
\* id, and nothing authenticates the connection) handles
\* {"type": "listener_update", "listeners": c}.  update_session_listeners is a
\* get followed by a save(update_fields=...); a missing session is passed over.
ListenerEvent(s) == [group |-> s, type |-> "listener_count_update", event |-> "none"]

ListenerUpdateRead(w, s, c) ==
    /\ Free(w)
    /\ IF s \in DOMAIN sessions
       THEN Goto(w, "listener_save", [Idle EXCEPT !.op = "listener_update", !.sid = s,
                                                  !.obj = sessions[s], !.arg = c])
       ELSE Goto(w, "listener_publish", [Idle EXCEPT !.op = "listener_update", !.sid = s])
    /\ NoPublish
    /\ UNCHANGED <<now, sessions, tracks, snapshots, metrics, deleted>>

ListenerUpdateSave(w) ==
    /\ pc[w] = "listener_save"
    /\ IF req[w].sid \in DOMAIN sessions
       THEN /\ sessions' = SaveListeners(req[w].sid, Listeners(req[w].obj, req[w].arg))
            /\ Goto(w, "listener_publish", [req[w] EXCEPT !.obj = NoObj, !.arg = NoObj])
       ELSE NoRowUpdated(w, "listener_update") /\ UNCHANGED sessions
    /\ NoPublish
    /\ UNCHANGED <<now, tracks, snapshots, metrics, deleted>>

ListenerUpdatePublish(w) ==
    /\ pc[w] = "listener_publish"
    /\ \/ group_send(ListenerEvent(req[w].sid)) /\ Respond(w, "listener_update", 0, req[w].sid)
       \/ PublishFails /\ Respond(w, "listener_update", 500, req[w].sid)
    /\ UNCHANGED <<now, sessions, tracks, snapshots, metrics, deleted>>

\* ------------------------------------------------ DELETE /sessions/{id}
\* QuerySet.delete / Model.delete: the sessions S are deleted together with
\* the rows that reference them (every foreign key to DJSession is
\* on_delete=CASCADE), in the one transaction the deletion opens.
DeleteSessions(S) ==
    LET gone == {t \in DOMAIN tracks : tracks[t].session \in S} IN
    /\ sessions' = [s \in DOMAIN sessions \ S |-> sessions[s]]
    /\ tracks' = [t \in DOMAIN tracks \ gone |-> tracks[t]]
    /\ snapshots' = SelectSeq(snapshots, LAMBDA r : r.session \notin S)
    /\ metrics' = SelectSeq(metrics, LAMBDA r : r.session \notin S)
    /\ deleted' = [sessions |-> deleted.sessions \cup (S \cap DOMAIN sessions),
                   tracks |-> deleted.tracks \cup gone]

\* ModelViewSet.destroy: get_object, then perform_destroy (not overridden):
\* instance.delete(), 204, nothing published.
SessionDestroyRead(w, u, s) ==
    /\ Free(w)
    /\ IF OwnedSession(u, s)
       THEN Goto(w, "destroy_delete", [Idle EXCEPT !.op = "destroy", !.user = u, !.sid = s])
       ELSE Respond(w, "destroy", 404, s)
    /\ NoPublish
    /\ UNCHANGED <<now, sessions, tracks, snapshots, metrics, deleted>>

SessionDestroyDelete(w) ==
    /\ pc[w] = "destroy_delete"
    /\ DeleteSessions({req[w].sid})
    /\ Respond(w, "destroy", 204, req[w].sid)
    /\ NoPublish
    /\ UNCHANGED now

\* ------------------------------------------ manage.py dj_manager cleanup
\* The --days option: the age, in ticks of the clock, data is kept for.
Days == 0..MaxTime

\* DJSession.objects.filter(ended_at__lt=cutoff): a null ended_at matches no
\* comparison.
OldSessions(cutoff) ==
    {s \in DOMAIN sessions : sessions[s].ended_at # NULL /\ sessions[s].ended_at < cutoff}

\* AudioLevelSnapshot.objects.filter(timestamp__lt=cutoff), by position.
OldSnapshots(cutoff) == {i \in 1..Len(snapshots) : snapshots[i].timestamp < cutoff}

\* cleanup_old_data: the cutoff and old_sessions.count().
CleanupCountSessions(w, days) ==
    /\ Free(w)
    /\ LET cutoff == now - days IN
       Goto(w, "cleanup_count", [Idle EXCEPT !.op = "cleanup",
                !.arg = [cutoff |-> cutoff,
                         session_count |-> Cardinality(OldSessions(cutoff))]])
    /\ NoPublish
    /\ UNCHANGED <<now, sessions, tracks, snapshots, metrics, deleted>>

\* old_snapshots.count(), and the return when both counts are 0.
CleanupCountSnapshots(w) ==
    /\ pc[w] = "cleanup_count"
    /\ IF req[w].arg.session_count = 0 /\ OldSnapshots(req[w].arg.cutoff) = {}
       THEN Respond(w, "cleanup", 200, 0)
       ELSE Goto(w, "cleanup_snapshots", req[w])
    /\ NoPublish
    /\ UNCHANGED <<now, sessions, tracks, snapshots, metrics, deleted>>

\* old_snapshots.delete()
CleanupDeleteSnapshots(w) ==
    /\ pc[w] = "cleanup_snapshots"
    /\ snapshots' = SelectSeq(snapshots, LAMBDA r : ~(r.timestamp < req[w].arg.cutoff))
    /\ Goto(w, "cleanup_sessions", req[w])
    /\ NoPublish
    /\ UNCHANGED <<now, sessions, tracks, metrics, deleted>>

\* old_sessions.delete(): the filter is evaluated now.
CleanupDeleteSessions(w) ==
    /\ pc[w] = "cleanup_sessions"
    /\ DeleteSessions(OldSessions(req[w].arg.cutoff))
    /\ Respond(w, "cleanup", 200, 0)
    /\ NoPublish
    /\ UNCHANGED now

\* ---------------------------------------------------- WebSocket consumers
\* The handler methods of the two consumer classes: the types of group
\* message an instance can dispatch.
SessionHandlers ==
    {"session_event", "session_update", "track_event", "track_update",
     "audio_levels_update", "mixer_state_update", "track_control_update",
     "listener_count_update", "stream_metrics"}

GlobalHandlers == {"platform_notification", "session_created", "session_ended"}

Handlers(scope) == IF scope = GlobalScope THEN GlobalHandlers ELSE SessionHandlers

\* The type of the frame each handler method writes to its socket.
WireType(type) ==
    CASE type = "audio_levels_update" -> "audio_levels"
      [] type = "mixer_state_update" -> "mixer_update"
      [] type = "track_control_update" -> "track_control"
      [] type = "listener_count_update" -> "listener_count"
      [] type = "platform_notification" -> "notification"
      [] OTHER -> type

\* The consumer of c is between two messages.
Ready(c) == conns[c].state = "Joined" /\ conns[c].pc = "idle"

\* A frame or a connection is accepted from a client.
Accepted == served < MaxRequests /\ served' = served + 1

\* A step of the consumer of c, which leaves the consumer as r.
Consumer(c, r) ==
    /\ conns' = [conns EXCEPT ![c] = r]
    /\ resp' = NoResp
    /\ UNCHANGED <<now, pc, req>>

\* An exception leaves a handler of c: the instance ends where it stands,
\* its channel is read no more, and no group_discard runs.
Raise(c) ==
    /\ Consumer(c, [conns[c] EXCEPT !.state = "Crashed", !.pc = "idle",
                                    !.obj = NoObj, !.arg = NoObj])
    /\ inbox' = [inbox EXCEPT ![c] = << >>]
    /\ UNCHANGED members

\* DJSessionConsumer.connect, up to accept(): the channel is added to the
\* session's group and the handshake is accepted.
SessionConnect(c, id) ==
    /\ conns[c].state = "Closed"
    /\ Accepted
    /\ members' = [members EXCEPT ![room_group_name(id)] = @ \cup {c}]
    /\ Consumer(c, [NoConn EXCEPT !.state = "Joined", !.scope = id, !.pc = "snapshot"])
    /\ frame' = NoFrame
    /\ NoPublish
    /\ UNCHANGED <<sessions, tracks, snapshots, metrics, deleted>>

\* get_session_data: DJSession.objects.get(id=...) raises ValidationError for
\* a string that is no UUID, DoesNotExist (caught: None) for an unknown id.
get_session_data(id) ==
    [is_live |-> sessions[id].is_live, current_listeners |-> sessions[id].current_listeners]

\* DJSessionConsumer.connect, after accept(): the session is read and, when
\* there is one, sent as a session_connected frame.
SessionConnectSnapshot(c) ==
    /\ conns[c].state = "Joined" /\ conns[c].pc = "snapshot"
    /\ conns[c].scope # GlobalScope
    /\ LET id == conns[c].scope IN
       IF id = NotUuid
       THEN Raise(c) /\ frame' = NoFrame
       ELSE /\ Consumer(c, [conns[c] EXCEPT !.pc = "idle"])
            /\ frame' = IF id \in DOMAIN sessions
                        THEN [conn |-> c, type |-> "session_connected", group |-> 0,
                              data |-> get_session_data(id)]
                        ELSE NoFrame
            /\ UNCHANGED <<members, inbox>>
    /\ sent' = NoSend
    /\ UNCHANGED <<sessions, tracks, snapshots, metrics, served, deleted>>

\* DJGlobalConsumer.connect, up to accept().
GlobalConnect(c) ==
    /\ conns[c].state = "Closed"
    /\ Accepted
    /\ members' = [members EXCEPT ![room_group_name(GlobalScope)] = @ \cup {c}]
    /\ Consumer(c, [NoConn EXCEPT !.state = "Joined", !.scope = GlobalScope, !.pc = "snapshot"])
    /\ frame' = NoFrame
    /\ NoPublish
    /\ UNCHANGED <<sessions, tracks, snapshots, metrics, deleted>>

\* DJGlobalConsumer.get_active_sessions_count
get_active_sessions_count == Cardinality({s \in DOMAIN sessions : sessions[s].ended_at = NULL})

\* DJGlobalConsumer.connect, after accept(): the platform_stats frame.
GlobalConnectSnapshot(c) ==
    /\ conns[c].state = "Joined" /\ conns[c].pc = "snapshot"
    /\ conns[c].scope = GlobalScope
    /\ Consumer(c, [conns[c] EXCEPT !.pc = "idle"])
    /\ frame' = [conn |-> c, type |-> "platform_stats", group |-> 0,
                 data |-> [active_sessions |-> get_active_sessions_count]]
    /\ NoPublish
    /\ UNCHANGED <<sessions, tracks, snapshots, metrics, served, members, deleted>>

\* disconnect of either consumer: group_discard.  The client closing, the
\* network dropping and the server closing all arrive as this one message.
Disconnect(c) ==
    /\ Ready(c)
    /\ members' = [members EXCEPT ![room_group_name(conns[c].scope)] = @ \ {c}]
    /\ Consumer(c, NoConn)
    /\ inbox' = [inbox EXCEPT ![c] = << >>]
    /\ frame' = NoFrame
    /\ sent' = NoSend
    /\ UNCHANGED <<sessions, tracks, snapshots, metrics, served, deleted>>

\* The consumer takes the next group message off its channel and calls the
\* method named by the message's type; a type without a method is a
\* ValueError.
Dispatch(c) ==
    /\ Ready(c)
    /\ inbox[c] # << >>
    /\ LET msg == Head(inbox[c]) IN
       IF msg.type \in Handlers(conns[c].scope)
       THEN /\ Consumer(c, conns[c])
            /\ frame' = [conn |-> c, type |-> WireType(msg.type), group |-> msg.group,
                         data |-> IF "data" \in DOMAIN msg THEN msg.data ELSE NoObj]
            /\ inbox' = [inbox EXCEPT ![c] = Tail(@)]
            /\ UNCHANGED members
       ELSE Raise(c) /\ frame' = NoFrame
    /\ sent' = NoSend
    /\ UNCHANGED <<sessions, tracks, snapshots, metrics, served, deleted>>

\* DJSessionConsumer.receive of a text that json.loads rejects: the one
\* exception receive catches.
ReceiveNotJson(c) ==
    /\ Ready(c) /\ conns[c].scope # GlobalScope
    /\ Accepted
    /\ Consumer(c, conns[c])
    /\ frame' = [conn |-> c, type |-> "error", group |-> 0, data |-> NoObj]
    /\ NoPublish
    /\ UNCHANGED <<sessions, tracks, snapshots, metrics, members, deleted>>

\* receive of a JSON object without a "type" key: text_data_json['type'] is
\* a KeyError, which nothing catches.
ReceiveNoType(c) ==
    /\ Ready(c) /\ conns[c].scope # GlobalScope
    /\ Accepted
    /\ Raise(c)
    /\ frame' = NoFrame
    /\ sent' = NoSend
    /\ UNCHANGED <<sessions, tracks, snapshots, metrics, deleted>>

\* receive of a message whose type is none of the four handled: no branch
\* of the if/elif chain is taken.
ReceiveOtherType(c) ==
    /\ Ready(c) /\ conns[c].scope # GlobalScope
    /\ Accepted
    /\ Consumer(c, conns[c])
    /\ frame' = NoFrame
    /\ NoPublish
    /\ UNCHANGED <<sessions, tracks, snapshots, metrics, members, deleted>>

\* handle_audio_levels, handle_mixer_update, handle_track_control: the
\* payload (data.get(key, {}), so a missing payload too) is sent to the
\* connection's group under the event type, and nothing else is done.
Relay(c, type, payload) ==
    /\ Ready(c) /\ conns[c].scope # GlobalScope
    /\ Accepted
    /\ \/ /\ group_send([group |-> room_group_name(conns[c].scope), type |-> type,
                         event |-> "none", data |-> payload])
          /\ Consumer(c, conns[c])
          /\ UNCHANGED members
       \/ PublishFails /\ Raise(c)
    /\ frame' = NoFrame
    /\ UNCHANGED <<sessions, tracks, snapshots, metrics, deleted>>

handle_audio_levels(c, levels) == Relay(c, "audio_levels_update", levels)
handle_mixer_update(c, mixer) == Relay(c, "mixer_state_update", mixer)
handle_track_control(c, track) == Relay(c, "track_control_update", track)

ListenerCountEvent_Zero(group, n) ==
    [group |-> group, type |-> "listener_count_update", event |-> "none", data |-> 0]

\* The message handle_listener_update sends to the group: the count as the
\* client sent it.
ListenerCountEvent(group, n) ==
    [group |-> group, type |-> "listener_count_update", event |-> "none", data |-> n]

\* The listener counts a client may send: current_listeners is a
\* PositiveIntegerField, and nothing validates the message.
ListenerInputs == Counts \cup {-1}

\* handle_listener_update, up to the get of update_session_listeners.
handle_listener_update(c, n) ==
    /\ Ready(c) /\ conns[c].scope # GlobalScope
    /\ Accepted
    /\ LET id == conns[c].scope IN
       IF id = NotUuid
       THEN Raise(c)
       ELSE /\ Consumer(c, IF id \in DOMAIN sessions
                           THEN [conns[c] EXCEPT !.pc = "listener_save",
                                                 !.obj = sessions[id], !.arg = n]
                           ELSE [conns[c] EXCEPT !.pc = "listener_send", !.arg = n])
            /\ UNCHANGED <<members, inbox>>
    /\ frame' = NoFrame
    /\ sent' = NoSend
    /\ UNCHANGED <<sessions, tracks, snapshots, metrics, deleted>>

\* update_session_listeners: session.save(update_fields=[...]).  A negative
\* count violates the column's CHECK (current_listeners >= 0): the UPDATE
\* raises IntegrityError, which only DoesNotExist would have caught.
update_session_listeners(c) ==
    /\ conns[c].state = "Joined" /\ conns[c].pc = "listener_save"
    /\ IF conns[c].arg < 0 \/ conns[c].scope \notin DOMAIN sessions
       THEN Raise(c) /\ UNCHANGED sessions
       ELSE /\ sessions' = SaveListeners(conns[c].scope, Listeners(conns[c].obj, conns[c].arg))
            /\ Consumer(c, [conns[c] EXCEPT !.pc = "listener_send", !.obj = NoObj])
            /\ UNCHANGED <<members, inbox>>
    /\ frame' = NoFrame
    /\ sent' = NoSend
    /\ UNCHANGED <<tracks, snapshots, metrics, served, deleted>>

\* handle_listener_update, the group_send after the update.
listener_count_send(c) ==
    /\ conns[c].state = "Joined" /\ conns[c].pc = "listener_send"
    /\ \/ /\ group_send(ListenerCountEvent(room_group_name(conns[c].scope), conns[c].arg))
          /\ Consumer(c, [conns[c] EXCEPT !.pc = "idle", !.arg = NoObj])
          /\ UNCHANGED members
       \/ PublishFails /\ Raise(c)
    /\ frame' = NoFrame
    /\ UNCHANGED <<sessions, tracks, snapshots, metrics, served, deleted>>

\* ------------------------------------- GET /sessions/{id}/realtime_stats
\* None, for a query that finds no row.
None == NoObj

\* ....filter(session=s).order_by('-timestamp'): the rows that may come first,
\* those of the greatest timestamp.
LatestRows(rows, s) ==
    {i \in 1..Len(rows) :
        /\ rows[i].session = s
        /\ \A j \in 1..Len(rows) : rows[j].session = s => rows[j].timestamp <= rows[i].timestamp}

\* ....first(): the first row, or None.
first(rows, s) == IF LatestRows(rows, s) = {} THEN {None} ELSE {rows[i] : i \in LatestRows(rows, s)}

\* The order of the deck names.
DeckRank(d) == IF d = "A" THEN 1 ELSE 2

\* ....filter(session=s, ended_at__isnull=True).order_by('deck'): the rows in
\* an order the database may return them in.
ActiveTrackLists(s) ==
    {q \in [1..Cardinality(ActiveTracks(s)) -> ActiveTracks(s)] :
        /\ \A i, j \in DOMAIN q : i # j => q[i] # q[j]
        /\ \A i, j \in DOMAIN q : i < j => DeckRank(tracks[q[i]].deck) <= DeckRank(tracks[q[j]].deck)}

\* ActiveTrackSerializer(many=True)
ActiveTrackData(q) == [i \in DOMAIN q |-> [id |-> q[i], deck |-> tracks[q[i]].deck]]

\* The mixer states have no table in this model: current_mixer_state is left
\* out of the response.
StatsRead(w, u, s) ==
    /\ Free(w)
    /\ IF OwnedSession(u, s)
       THEN Goto(w, "stats_audio", [Idle EXCEPT !.op = "realtime_stats", !.user = u, !.sid = s,
                                                !.obj = sessions[s]])
       ELSE Respond(w, "realtime_stats", 404, s)
    /\ NoPublish
    /\ UNCHANGED <<now, sessions, tracks, snapshots, metrics, deleted>>

StatsAudio(w) ==
    /\ pc[w] = "stats_audio"
    /\ \E row \in first(snapshots, req[w].sid) :
           Goto(w, "stats_metrics", [req[w] EXCEPT !.arg = [latest_audio_levels |-> row]])
    /\ NoPublish
    /\ UNCHANGED <<now, sessions, tracks, snapshots, metrics, deleted>>

StatsMetrics(w) ==
    /\ pc[w] = "stats_metrics"
    /\ \E row \in first(metrics, req[w].sid) :
           Goto(w, "stats_tracks",
                [req[w] EXCEPT !.arg = [latest_audio_levels |-> req[w].arg.latest_audio_levels,
                                        latest_stream_metrics |-> row]])
    /\ NoPublish
    /\ UNCHANGED <<now, sessions, tracks, snapshots, metrics, deleted>>

\* serializer.data evaluates the active_tracks queryset, the last query of
\* the handler.
StatsTracks(w) ==
    /\ pc[w] = "stats_tracks"
    /\ \E q \in ActiveTrackLists(req[w].sid) :
           resp' = [op |-> "realtime_stats", status |-> 200, sid |-> req[w].sid,
                    session |-> req[w].obj,
                    active_tracks |-> ActiveTrackData(q),
                    latest_audio_levels |-> req[w].arg.latest_audio_levels,
                    latest_stream_metrics |-> req[w].arg.latest_stream_metrics]
    /\ pc' = [pc EXCEPT ![w] = "idle"]
    /\ req' = [req EXCEPT ![w] = Idle]
    /\ NoSocket
    /\ NoPublish
    /\ UNCHANGED <<now, sessions, tracks, snapshots, metrics, served, deleted>>

\* ------------------------------------------------------------ next-state
Create ==
    \/ \E w \in Workers, u \in Users : SessionCreate(w, u)
    \/ \E w \in Workers : SessionCreatePublish(w)
    \/ \E w \in Workers, u \in Users : CommandCreateSession(w, u)

Lifecycle ==
    \/ \E w \in Workers, u \in Users, s \in SessionIds : StartSessionRead(w, u, s)
    \/ \E w \in Workers : StartSessionSave(w)
    \/ \E w \in Workers : StartSessionPublish(w)
    \/ \E w \in Workers, u \in Users, s \in SessionIds : EndSessionRead(w, u, s)
    \/ \E w \in Workers : EndSessionSave(w)
    \/ \E w \in Workers : EndSessionCascade(w)
    \/ \E w \in Workers : EndSessionPublish(w)
    \/ \E w \in Workers, s \in SessionIds : StopSessionRead(w, s)
    \/ \E w \in Workers : StopSessionSave(w)
    \/ \E w \in Workers : StopSessionCascade(w)

Decks ==
    \/ \E w \in Workers, u \in Users, s \in SessionIds, d \in DECK_CHOICES :
            TrackLoadValidate(w, u, s, d)
    \/ \E w \in Workers : TrackLoadInsert(w)
    \/ \E w \in Workers, u \in Users, t \in TrackIds, b \in BOOLEAN : TrackPlayRead(w, u, t, b)
    \/ \E w \in Workers : TrackPlaySave(w)
    \/ \E w \in Workers : TrackPlayPublish(w)

\* seek.
Seek ==
    \/ \E w \in Workers, u \in Users, t \in TrackIds, p \in Positions : TrackSeekRead(w, u, t, p)
    \/ \E w \in Workers : TrackSeekSave(w)
    \/ \E w \in Workers : TrackSeekPublish(w)

\* The cue points of a loaded track: add_cue and PATCH.
Cues ==
    \/ \E w \in Workers, u \in Users, t \in TrackIds, d \in AddCueInputs : AddCueRead(w, u, t, d)
    \/ \E w \in Workers : AddCueSave(w)
    \/ \E w \in Workers : AddCuePublish(w)
    \/ \E w \in Workers, u \in Users, t \in TrackIds, p \in TrackPatchInputs :
            TrackPatchRead(w, u, t, p)
    \/ \E w \in Workers : TrackPatchSave(w)
    \/ \E w \in Workers : TrackPatchPublish(w)

\* play and pause.
Playback ==
    \/ \E w \in Workers, u \in Users, t \in TrackIds, b \in BOOLEAN : TrackPlayRead(w, u, t, b)
    \/ \E w \in Workers : TrackPlaySave(w)
    \/ \E w \in Workers : TrackPlayPublish(w)

\* PATCH /sessions/{id} with a body that sets one of the fields F.
Patch(F) ==
    \/ \E w \in Workers, u \in Users, s \in SessionIds, p \in PatchInputs(F) :
            SessionPatchRead(w, u, s, p)
    \/ \E w \in Workers : SessionPatchSave(w)
    \/ \E w \in Workers : SessionPatchPublish(w)

Metrics ==
    \/ \E w \in Workers, u \in Users, s \in SessionIds, c \in Counts : MetricsValidate(w, u, s, c)
    \/ \E w \in Workers : MetricsInsert(w)
    \/ \E w \in Workers : MetricsUpdate(w)
    \/ \E w \in Workers : MetricsPublish(w)

Audio ==
    \/ \E w \in Workers, u \in Users, s \in SessionIds, snap \in SnapshotInputs :
            AudioValidate(w, u, s, snap)
    \/ \E w \in Workers : AudioInsert(w)
    \/ \E w \in Workers : AudioUpdate(w)
    \/ \E w \in Workers : AudioPublish(w)

Listener ==
    \/ \E w \in Workers, s \in SessionIds, c \in Counts : ListenerUpdateRead(w, s, c)
    \/ \E w \in Workers : ListenerUpdateSave(w)
    \/ \E w \in Workers : ListenerUpdatePublish(w)

\* Rows are deleted: by DELETE /sessions/{id} and by the cleanup command.
Retention ==
    \/ \E w \in Workers, u \in Users, s \in SessionIds : SessionDestroyRead(w, u, s)
    \/ \E w \in Workers : SessionDestroyDelete(w)
    \/ \E w \in Workers, days \in Days : CleanupCountSessions(w, days)
    \/ \E w \in Workers : CleanupCountSnapshots(w)
    \/ \E w \in Workers : CleanupDeleteSnapshots(w)
    \/ \E w \in Workers : CleanupDeleteSessions(w)

\* The connections: opened, closed, and their consumers' handlers.
Sockets ==
    \/ \E c \in Conns, id \in RouteIds : SessionConnect(c, id)
    \/ \E c \in Conns : SessionConnectSnapshot(c)
    \/ \E c \in Conns : GlobalConnect(c)
    \/ \E c \in Conns : GlobalConnectSnapshot(c)
    \/ \E c \in Conns : Disconnect(c)
    \/ \E c \in Conns : Dispatch(c)
    \/ \E c \in Conns : ReceiveNotJson(c)
    \/ \E c \in Conns : ReceiveNoType(c)
    \/ \E c \in Conns : ReceiveOtherType(c)
    \/ \E c \in Conns, l \in Levels : handle_audio_levels(c, l)
    \/ \E c \in Conns, l \in Levels : handle_mixer_update(c, l)
    \/ \E c \in Conns, l \in Levels : handle_track_control(c, l)
    \/ \E c \in Conns, n \in ListenerInputs : handle_listener_update(c, n)
    \/ \E c \in Conns : update_session_listeners(c)
    \/ \E c \in Conns : listener_count_send(c)

\* realtime_stats.
Stats ==
    \/ \E w \in Workers, u \in Users, s \in SessionIds : StatsRead(w, u, s)
    \/ \E w \in Workers : StatsAudio(w)
    \/ \E w \in Workers : StatsMetrics(w)
    \/ \E w \in Workers : StatsTracks(w)

\* The whole system.
Next ==
    \/ Tick \/ Create \/ Lifecycle \/ Decks \/ Patch(PatchFields) \/ Metrics \/ Audio \/ Listener
    \/ Sockets \/ Retention \/ Seek \/ Cues \/ Stats

Spec == Init /\ [][Next]_vars

\* The session life cycle and the decks: sessions are created, started,
\* ended and stopped, tracks are loaded, played and paused, is_live is patched.
NextLifecycle == Tick \/ Create \/ Lifecycle \/ Decks \/ Patch({"is_live"})

SpecLifecycle == Init /\ [][NextLifecycle]_vars

\* The listener counters: metrics are posted, connections report listener
\* counts, current_listeners is patched.
NextListeners == Create \/ Metrics \/ Listener \/ Patch({"current_listeners"})

SpecListeners == Init /\ [][NextListeners]_vars

\* The cached audio levels: snapshots are posted, a cached level and is_live
\* are patched.
NextAudio == Create \/ Audio \/ Patch({"master_level_left", "is_live"})

SpecAudio == Init /\ [][NextAudio]_vars

\* The real-time side: sessions are created, snapshots are posted, and
\* connections are opened, send their messages and are closed.
NextRealtime == Create \/ Audio \/ Sockets

SpecRealtime == Init /\ [][NextRealtime]_vars

\* The groups: sessions are created, and connections are opened, send their
\* messages and are closed.
NextGroups == Create \/ Sockets

SpecGroups == Init /\ [][NextGroups]_vars

\* Retention: sessions are created, started, ended, stopped and deleted, and
\* old data is cleaned up.
SpecRetention == Init /\ [][Tick \/ Create \/ Lifecycle \/ Retention]_vars

\* One deck: a session of u1 holds a track instance on deck A (the state
\* after its POST /sessions and POST /tracks).
InitDeck ==
    /\ now = 0
    /\ sessions = <<DJSession("u1")>>
    /\ tracks = <<DJTrackInstance(1, "A")>>
    /\ snapshots = << >>
    /\ metrics = << >>
    /\ pc = [w \in Workers |-> "idle"]
    /\ req = [w \in Workers |-> Idle]
    /\ sent = NoSend
    /\ resp = NoResp
    /\ served = 0
    /\ conns = [c \in Conns |-> NoConn]
    /\ members = [g \in Scopes |-> {}]
    /\ inbox = [c \in Conns |-> << >>]
    /\ frame = NoFrame
    /\ deleted = [sessions |-> {}, tracks |-> {}]

\* The track is played, paused and sought.
SpecDeck == InitDeck /\ [][Playback \/ Seek]_vars

\* The track's cue points are added and patched.
SpecCues == InitDeck /\ [][Cues]_vars

\* A session that its DJ has just created.
InitSession ==
    /\ now = 0
    /\ sessions = <<DJSession("u1")>>
    /\ tracks = << >>
    /\ snapshots = << >>
    /\ metrics = << >>
    /\ pc = [w \in Workers |-> "idle"]
    /\ req = [w \in Workers |-> Idle]
    /\ sent = NoSend
    /\ resp = NoResp
    /\ served = 0
    /\ conns = [c \in Conns |-> NoConn]
    /\ members = [g \in Scopes |-> {}]
    /\ inbox = [c \in Conns |-> << >>]
    /\ frame = NoFrame
    /\ deleted = [sessions |-> {}, tracks |-> {}]

\* The dashboard: tracks are loaded and played, levels and metrics are
\* posted, and the statistics are read.
SpecStats == InitSession /\ [][Tick \/ Decks \/ Audio \/ Metrics \/ Stats]_vars

\* ------------------------------------------------------------ properties
\* The rows of the store that belong to session s.
SessionState(s) ==
    [row |-> sessions[s],
     tracks |-> {<<t, tracks[t]>> : t \in {x \in DOMAIN tracks : tracks[x].session = s}},
     snapshots |-> SelectSeq(snapshots, LAMBDA r : r.session = s),
     metrics |-> SelectSeq(metrics, LAMBDA r : r.session = s)]

\* Worker w executes the statement at label from, and goes on to label to.
Steps(w, from, to) == pc[w] = from /\ pc'[w] = to

\* C1: for every (session, deck) at most one track instance has ended_at
\* null, in every reachable state.
C1_DeckOccupancy ==
    \A s \in SessionIds, d \in DECK_CHOICES :
        Cardinality({t \in ActiveTracks(s) : tracks[t].deck = d}) <= 1

\* C2: every session whose ended_at is set has is_live = false, in every
\* reachable state.
C2_EndedNotLive ==
    \A s \in DOMAIN sessions : sessions[s].ended_at # NULL => ~sessions[s].is_live

\* C3: no statement executed for a request of user U, or for a connection
\* that is not the DJ's, changes the stored state of a session whose dj is
\* not U: its row, its track instances, its snapshots, its metrics.
C3_OwnershipScoping ==
    [][\A w \in Workers, s \in DOMAIN sessions :
          (pc[w] # "idle" /\ pc'[w] # pc[w] /\ sessions[s].dj # req[w].user)
              => (s \in DOMAIN sessions' /\ SessionState(s)' = SessionState(s))]_vars

\* C4: end_session on a live session sets is_live = false and ended_at = now
\* and then ends every track instance of the session that was active
\* (ended_at set, is_playing = false); on a session that is not live it
\* answers 400 and changes no session and no track.
C4_EndSession ==
    [][/\ \A w \in Workers, u \in Users, s \in SessionIds :
            (EndSessionRead(w, u, s) /\ OwnedSession(u, s))
                => IF sessions[s].is_live
                   THEN pc'[w] = "end_save"
                   ELSE /\ resp' = [op |-> "end_session", status |-> 400, sid |-> s]
                        /\ pc'[w] = "idle"
                        /\ UNCHANGED <<sessions, tracks>>
       /\ \A w \in Workers :
            Steps(w, "end_save", "end_cascade")
                => /\ ~sessions'[req[w].sid].is_live
                   /\ sessions'[req[w].sid].ended_at = now
       /\ \A w \in Workers :
            Steps(w, "end_cascade", "end_publish")
                => \A t \in DOMAIN tracks :
                      IF tracks[t].session = req[w].sid /\ tracks[t].ended_at = NULL
                      THEN tracks'[t].ended_at = now /\ ~tracks'[t].is_playing
                      ELSE tracks'[t] = tracks[t]]_vars

\* C4 witness: an end_session request has ended its session and stopped a
\* track that was active on it.
C4_Witness ==
    \E w \in Workers :
        /\ pc[w] = "end_publish"
        /\ sessions[req[w].sid].ended_at # NULL
        /\ ~sessions[req[w].sid].is_live
        /\ \E t \in DOMAIN tracks :
              tracks[t].session = req[w].sid /\ tracks[t].ended_at # NULL

\* C5: a session with ended_at set has no track instance with ended_at null,
\* in every reachable state.
C5_AtomicSoftStop ==
    \A s \in DOMAIN sessions : sessions[s].ended_at # NULL => ActiveTracks(s) = {}

\* C6: start_session on a session that is already live answers 400, leaves
\* the store unchanged and publishes nothing; on a session that is not live
\* it sets is_live = true and started_at = now.
C6_StartSession ==
    [][/\ \A w \in Workers, u \in Users, s \in SessionIds :
            (StartSessionRead(w, u, s) /\ OwnedSession(u, s))
                => IF sessions[s].is_live
                   THEN /\ resp' = [op |-> "start_session", status |-> 400, sid |-> s]
                        /\ pc'[w] = "idle"
                        /\ sent' = NoSend
                        /\ UNCHANGED <<sessions, tracks, snapshots, metrics>>
                   ELSE pc'[w] = "start_save"
       /\ \A w \in Workers :
            Steps(w, "start_save", "start_publish")
                => /\ sessions'[req[w].sid].is_live
                   /\ sessions'[req[w].sid].started_at = now]_vars

\* C6 witness: one start_session request has just been rejected with 400
\* while another has made its session live.
C6_Witness ==
    /\ resp.op = "start_session" /\ resp.status = 400
    /\ \E w \in Workers :
          /\ pc[w] = "start_publish"
          /\ sessions[req[w].sid].is_live
          /\ sessions[req[w].sid].started_at = now

\* C7: a track load naming a (session, deck) that holds an active track
\* instance answers 400 and leaves the track table unchanged; when the deck
\* is free the load goes on to insert an active instance on that deck, and
\* the rows already there are unchanged.
C7_TrackLoad ==
    [][/\ \A w \in Workers, u \in Users, s \in DOMAIN sessions, d \in DECK_CHOICES :
            TrackLoadValidate(w, u, s, d)
                => IF \E t \in DOMAIN tracks :
                         tracks[t].session = s /\ tracks[t].deck = d /\ tracks[t].ended_at = NULL
                   THEN /\ resp' = [op |-> "load", status |-> 400, sid |-> s]
                        /\ pc'[w] = "idle"
                        /\ UNCHANGED tracks
                   ELSE pc'[w] = "load_insert"
       /\ \A w \in Workers :
            Steps(w, "load_insert", "idle")
                => /\ resp'.status = 201
                   /\ \A t \in DOMAIN tracks : t \in DOMAIN tracks' /\ tracks'[t] = tracks[t]
                   /\ \E t \in DOMAIN tracks' \ DOMAIN tracks :
                         /\ DOMAIN tracks' = DOMAIN tracks \cup {t}
                         /\ tracks'[t].session = req[w].sid
                         /\ tracks'[t].deck = req[w].arg
                         /\ tracks'[t].ended_at = NULL]_vars

\* C7 witness: a load has just been rejected on a session that holds an
\* active track instance.
C7_Witness ==
    /\ resp.op = "load" /\ resp.status = 400
    /\ resp.sid \in DOMAIN sessions
    /\ ActiveTracks(resp.sid) # {}

\* C8: no step lowers the stored peak_listeners of a session.
C8_PeakMonotonic ==
    [][\A s \in DOMAIN sessions :
          s \in DOMAIN sessions'
              => sessions'[s].peak_listeners >= sessions[s].peak_listeners]_vars

\* C9: when a stream-metrics POST with current_listeners = c, made on a
\* session it loaded with peak p, writes the session, the metrics record is
\* in the table, current_listeners becomes c and peak_listeners max(p, c).
C9_RecordMetrics ==
    [][\A w \in Workers :
          Steps(w, "metrics_update", "metrics_publish")
              => LET s == req[w].sid
                     c == req[w].arg
                     p == req[w].obj.peak_listeners
                 IN /\ \E i \in 1..Len(metrics) :
                          metrics[i].session = s /\ metrics[i].current_listeners = c
                    /\ sessions'[s].current_listeners = c
                    /\ sessions'[s].peak_listeners = Max(p, c)]_vars

\* C9 witness: a metrics POST has raised the peak of its session.
C9_Witness ==
    \E w \in Workers :
        /\ pc[w] = "metrics_publish"
        /\ sessions[req[w].sid].current_listeners = req[w].arg
        /\ sessions[req[w].sid].peak_listeners = req[w].arg
        /\ req[w].arg > 0
        /\ Len(metrics) > 0

\* The cached level columns of a session row.
LevelFields ==
    {"master_level_left", "master_level_right", "channel_a_level", "channel_b_level"}

\* C10: when an audio-levels POST writes the session, the snapshot is in the
\* table, the cached levels are the snapshot's master levels and the maximum
\* of each channel's left and right, and no other field of the session and
\* no other session changes.
C10_RecordAudioLevels ==
    [][\A w \in Workers :
          Steps(w, "audio_update", "audio_publish")
              => LET s == req[w].sid
                     snap == req[w].arg
                 IN /\ \E i \in 1..Len(snapshots) :
                          snapshots[i].session = s /\ snapshots[i].levels = snap
                    /\ sessions'[s].master_level_left = snap.master_left
                    /\ sessions'[s].master_level_right = snap.master_right
                    /\ sessions'[s].channel_a_level
                          = Max(snap.channel_a_left, snap.channel_a_right)
                    /\ sessions'[s].channel_b_level
                          = Max(snap.channel_b_left, snap.channel_b_right)
                    /\ \A f \in DOMAIN sessions[s] \ LevelFields :
                          sessions'[s][f] = sessions[s][f]
                    /\ \A x \in DOMAIN sessions \ {s} : sessions'[x] = sessions[x]]_vars

\* C10 witness: an audio-levels POST whose channel A is louder on the right
\* has written the session.
C10_Witness ==
    \E w \in Workers :
        /\ pc[w] = "audio_publish"
        /\ Len(snapshots) > 0
        /\ snapshots[Len(snapshots)].levels.channel_a_right > snapshots[Len(snapshots)].levels.channel_a_left
        /\ sessions[req[w].sid].channel_a_level = snapshots[Len(snapshots)].levels.channel_a_right

\* The operations of the REST surface.
RestOps ==
    {"create", "patch", "start_session", "end_session", "load", "play", "pause",
     "metrics", "audio"}

\* C11: every REST request that committed a mutation and answers with
\* success has, with its last statement, published an event to the group of
\* the session it mutated.
C11_MutationsPublished ==
    [][\A w \in Workers :
          (pc[w] # "idle" /\ pc'[w] = "idle"
             /\ resp'.op \in RestOps /\ resp'.status \in {200, 201})
              => (sent'.type # "none" /\ sent'.group = resp'.sid)]_vars

\* The types of the events the REST handlers publish to a session's group.
RestEventTypes ==
    {"session_event", "session_update", "track_event", "track_update",
     "audio_levels", "mixer_update", "stream_metrics"}

\* C12: an event a REST handler publishes to a session's group is put on
\* the channel of every connection Joined to that group, and the consumer
\* that takes it off its channel sends it as one frame down its socket and
\* stays Joined.
C12_EventsPushed ==
    [][/\ \A c \in Conns :
            (sent'.type \in RestEventTypes /\ conns[c].state = "Joined"
               /\ c \in members[sent'.group])
                => inbox'[c] = Append(inbox[c], sent')
       /\ \A c \in Conns :
            (Dispatch(c) /\ Head(inbox[c]).type \in RestEventTypes)
                => /\ frame'.conn = c
                   /\ frame'.group = Head(inbox[c]).group
                   /\ conns'[c].state = "Joined"]_vars

\* C13: when a session has been created, or ended, by a REST request, every
\* connection Joined to the global group has the session_created, or
\* session_ended, event put on its channel.
C13_GlobalFanout ==
    [][\A w \in Workers, c \in Conns :
          (/\ Steps(w, "create_publish", "idle") \/ Steps(w, "end_publish", "idle")
           /\ resp'.status \in {200, 201}
           /\ conns[c].state = "Joined" /\ conns[c].scope = GlobalScope)
              => /\ Len(inbox'[c]) = Len(inbox[c]) + 1
                 /\ inbox'[c][Len(inbox'[c])].type
                        = (IF pc[w] = "create_publish" THEN "session_created"
                                                       ELSE "session_ended")]_vars

\* C14: a message is put on a connection's channel, and a group event is
\* sent down a connection's socket, only if the connection is a member of
\* the group the event was published to and that group is the one of the
\* session (or of the global scope) the connection is bound to.
C14_GroupIsolation ==
    [][\A c \in Conns :
          /\ Len(inbox'[c]) > Len(inbox[c])
                => (c \in members[sent'.group] /\ conns[c].scope = sent'.group)
          /\ (frame'.conn = c /\ frame'.group # 0)
                => (c \in members[frame'.group] /\ conns[c].scope = frame'.group)]_vars

\* C14 witness: a group event has been sent down the socket of a connection
\* of its group while another connection, Joined to another group, has
\* received nothing.
C14_Witness ==
    /\ frame.group # 0
    /\ conns[frame.conn].scope = frame.group
    /\ \E d \in Conns :
          /\ d # frame.conn
          /\ conns[d].state = "Joined"
          /\ conns[d].scope # frame.group
          /\ inbox[d] = << >>

\* C15: in every reachable state, every channel that is a member of a group
\* belongs to a connection that is Joined.
C15_MembershipReleased ==
    \A g \in Scopes : \A c \in members[g] : conns[c].state = "Joined"

\* C16: opening a session connection makes it Joined and a member of the
\* group of the id in its URL; connect then ends with the connection Joined,
\* having sent one session_connected frame if the session exists and none if
\* it does not; connect of a global connection joins the global group and
\* sends one frame with the number of sessions whose ended_at is null.
C16_ConnectProtocol ==
    [][\A c \in Conns :
          /\ \A id \in RouteIds :
                SessionConnect(c, id)
                    => (conns'[c].state = "Joined" /\ c \in members'[id])
          /\ GlobalConnect(c)
                => (conns'[c].state = "Joined" /\ c \in members'[GlobalScope])
          /\ (conns[c].pc = "snapshot" /\ conns'[c] # conns[c])
                => /\ conns'[c].state = "Joined"
                   /\ c \in members'[conns[c].scope]
                   /\ IF conns[c].scope = GlobalScope
                      THEN /\ frame'.conn = c /\ frame'.type = "platform_stats"
                           /\ frame'.data.active_sessions
                                = Cardinality({s \in DOMAIN sessions :
                                                  sessions[s].ended_at = NULL})
                      ELSE IF conns[c].scope \in DOMAIN sessions
                      THEN frame'.conn = c /\ frame'.type = "session_connected"
                      ELSE frame' = NoFrame]_vars

\* C17: a frame that is not JSON, or is JSON without a type, is answered
\* with one error frame to its sender; nothing is published, the store is
\* unchanged and the connection stays Joined.
C17_ProtocolError ==
    [][\A c \in Conns :
          (ReceiveNotJson(c) \/ ReceiveNoType(c))
              => /\ frame'.conn = c /\ frame'.type = "error"
                 /\ sent' = NoSend
                 /\ UNCHANGED <<sessions, tracks, snapshots, metrics>>
                 /\ conns'[c].state = "Joined"]_vars

\* C18: when the store rejects the write of a listener_update (a negative
\* count against current_listeners >= 0), the sender is sent an error frame
\* and its connection stays Joined.
C18_PersistenceFailure ==
    [][\A c \in Conns :
          (conns[c].pc = "listener_save" /\ conns[c].arg < 0 /\ conns'[c] # conns[c])
              => /\ frame'.conn = c /\ frame'.type = "error"
                 /\ conns'[c].state = "Joined"]_vars

\* The labels at which a REST handler publishes its event.
PublishLabels ==
    {"create_publish", "patch_publish", "start_publish", "end_publish",
     "play_publish", "metrics_publish", "audio_publish"}

\* C19: when the group_send of a REST handler fails, the rows already
\* written stay as they are, the publish is not tried again, and the
\* request is still answered with its success status.
C19_BestEffortBroadcast ==
    [][\A w \in Workers :
          (pc[w] \in PublishLabels /\ pc'[w] # pc[w] /\ sent' = NoSend)
              => /\ UNCHANGED <<sessions, tracks, snapshots, metrics>>
                 /\ pc'[w] = "idle"
                 /\ resp'.status \in {200, 201}]_vars

\* C20: when a Joined connection's audio_levels message has been handled,
\* the session's stored levels are the pushed ones and the event has been
\* sent to the session's group.
C20_PushedTelemetryPersisted ==
    [][\A c \in Conns, l \in Levels :
          (handle_audio_levels(c, l) /\ conns[c].scope \in DOMAIN sessions
             /\ conns'[c].state = "Joined")
              => /\ sessions'[conns[c].scope].master_level_left = l
                 /\ sent'.type = "audio_levels_update"
                 /\ sent'.group = conns[c].scope]_vars

C22_NoActiveDelete ==
    [][\A s \in DOMAIN sessions :
          s \notin DOMAIN sessions'
              => /\ sessions[s].ended_at # NULL
                 /\ \E w \in Workers :
                       /\ pc[w] = "cleanup_sessions" /\ pc'[w] = "idle"
                       /\ sessions[s].ended_at < req[w].arg.cutoff]_vars

\* C23: when add_cue writes an instance it loaded with n cue points, the
\* cue is stored under the name given, or under "Cue n+1" when the name is
\* omitted, at the position given, or at the loaded current_position when
\* the position is omitted; a name already in the mapping has its position
\* replaced and the number of entries stays n; every other entry keeps its
\* position.
C23_AddCue ==
    [][\A w \in Workers :
          Steps(w, "cue_save", "cue_publish")
              => LET old == req[w].obj.cue_points
                     d == req[w].arg
                     n == Cardinality(DOMAIN old)
                     name == IF "name" \in DOMAIN d THEN d.name ELSE n + 1
                     position == IF "position" \in DOMAIN d THEN d.position
                                 ELSE req[w].obj.current_position
                     new == tracks'[req[w].tid].cue_points
                 IN /\ name \in DOMAIN new /\ new[name] = position
                    /\ DOMAIN new = DOMAIN old \cup {name}
                    /\ name \in DOMAIN old => Cardinality(DOMAIN new) = n
                    /\ \A k \in DOMAIN old \ {name} : new[k] = old[k]]_vars

\* C23 witness: an add_cue without a name has stored its cue as "Cue 2",
\* beside the one cue the instance had.
C23_Witness ==
    \E w \in Workers :
        /\ pc[w] = "cue_publish"
        /\ "name" \notin DOMAIN req[w].arg
        /\ DOMAIN tracks[req[w].tid].cue_points = {1, 2}

\* C29: an add_cue without a name, writing an instance it loaded with n cue
\* points, leaves n + 1 entries and the position of each of the n unchanged.
C29_DefaultCueIsNew ==
    [][\A w \in Workers :
          (Steps(w, "cue_save", "cue_publish") /\ "name" \notin DOMAIN req[w].arg)
              => LET old == req[w].obj.cue_points
                     new == tracks'[req[w].tid].cue_points
                 IN /\ Cardinality(DOMAIN new) = Cardinality(DOMAIN old) + 1
                    /\ \A k \in DOMAIN old : k \in DOMAIN new /\ new[k] = old[k]]_vars

\* C26: a play or pause, which writes is_playing, leaves the stored
\* current_position of its track as it is, and a seek, which writes
\* current_position, leaves the stored is_playing as it is: in every
\* interleaving each field keeps the value of the last operation that wrote it.
C26_PerFieldLastWrite ==
    [][\A w \in Workers :
          /\ (Steps(w, "play_save", "play_publish") /\ req[w].tid \in DOMAIN tracks)
                 => tracks'[req[w].tid].current_position
                        = tracks[req[w].tid].current_position
          /\ (Steps(w, "seek_save", "seek_publish") /\ req[w].tid \in DOMAIN tracks)
                 => tracks'[req[w].tid].is_playing
                        = tracks[req[w].tid].is_playing]_vars

\* C27: once a session's ended_at is set, no step of any request changes it
\* or makes it null again.
C27_EndingIrreversible ==
    [][\A s \in DOMAIN sessions :
          (sessions[s].ended_at # NULL /\ s \in DOMAIN sessions')
              => sessions'[s].ended_at = sessions[s].ended_at]_vars

\* C28: a start_session commits only while no other start_session request on
\* the same session has committed from the same non-live state and is still
\* in progress, and likewise for end_session on a live session: of two
\* concurrent transitions one is rejected.
C28_ExclusiveTransitions ==
    [][\A w \in Workers :
          /\ (Steps(w, "start_save", "start_publish") /\ req[w].sid \in DOMAIN sessions)
                 => ~\E v \in Workers \ {w} :
                        /\ pc[v] = "start_publish"
                        /\ req[v].sid = req[w].sid
                        /\ sessions[req[w].sid].is_live
          /\ (Steps(w, "end_save", "end_cascade") /\ req[w].sid \in DOMAIN sessions)
                 => ~\E v \in Workers \ {w} :
                        /\ pc[v] \in {"end_cascade", "end_publish"}
                        /\ req[v].sid = req[w].sid
                        /\ ~sessions[req[w].sid].is_live]_vars

\* C24: realtime_stats of an owned session answers with the latest audio
\* snapshot and the latest metrics record of the session, None when it has
\* none, and with exactly the session's track instances whose ended_at is
\* null, ordered by deck and at most one per deck.
C24_RealtimeStats ==
    [][\A w \in Workers :
          /\ Steps(w, "stats_audio", "stats_metrics")
                 => req'[w].arg.latest_audio_levels \in first(snapshots, req[w].sid)
          /\ Steps(w, "stats_metrics", "stats_tracks")
                 => req'[w].arg.latest_stream_metrics \in first(metrics, req[w].sid)
          /\ Steps(w, "stats_tracks", "idle")
                 => LET a == resp'.active_tracks IN
                    /\ {a[i].id : i \in DOMAIN a} = ActiveTracks(req[w].sid)
                    /\ \A i, j \in DOMAIN a : i < j => DeckRank(a[i].deck) <= DeckRank(a[j].deck)
                    /\ \A i, j \in DOMAIN a : i # j => a[i].deck # a[j].deck]_vars

\* C25: a step that publishes an event writes nothing itself, and the write
\* the event reports is in the store when it is published: the session of a
\* session_created event exists, and the session of a listener_count event
\* exists and holds the count the event carries; a request answered with 400
\* publishes nothing.
C25_PersistThenPublish ==
    [][/\ sent' # NoSend => UNCHANGED <<sessions, tracks, snapshots, metrics>>
       /\ resp'.status = 400 => sent' = NoSend
       /\ \A w \in Workers :
            (Steps(w, "create_publish", "idle") /\ sent' # NoSend)
                => req[w].sid \in DOMAIN sessions
       /\ \A c \in Conns :
            (listener_count_send(c) /\ sent' # NoSend)
                => /\ conns[c].scope \in DOMAIN sessions
                   /\ sessions[conns[c].scope].current_listeners = conns[c].arg]_vars

\* C30: for a connection Joined to the group of an existing session, every
\* event published to the group is put on its channel, no frame but the
\* session_connected snapshot is sent while connect is running, and the
\* consumer that takes the next event off the channel sends it down the
\* socket as a frame and goes on reading.
C30_NoMissedUpdate ==
    [][\A c \in Conns :
          (conns[c].state = "Joined" /\ conns[c].scope \in DOMAIN sessions)
              => /\ (sent' # NoSend /\ c \in members[sent'.group])
                        => inbox'[c] = Append(inbox[c], sent')
                 /\ (frame'.conn = c /\ conns[c].pc = "snapshot")
                        => frame'.type = "session_connected"
                 /\ Dispatch(c)
                        => /\ inbox'[c] = Tail(inbox[c])
                           /\ frame'.conn = c
                           /\ frame'.type = WireType(Head(inbox[c]).type)
                           /\ conns'[c].state = "Joined"]_vars
====
